---- MODULE Spec2Model ----
(***************************************************************************)
(* The VibeMQ documentation build configuration: docs/conf.py (the default *)
(* entry point, language 'en') and docs/ru/conf.py (language 'ru').        *)
(*                                                                         *)
(* A conf.py is a Python module that Sphinx executes top to bottom with    *)
(* the working directory set to the directory of the file; the module      *)
(* namespace left behind is the resolved configuration.  The model         *)
(* executes each file section by section (the sections are the ones the    *)
(* files mark with their "# -- ... ---" banners), with the process         *)
(* environment and the file system as the inputs.                          *)
(*                                                                         *)
(* Python values: a str is a string, True/False are TRUE/FALSE, a list or  *)
(* tuple is a sequence, a dict is the sequence of its <<key, value>> items *)
(* in insertion order, None is the marker None below.  A relative path is  *)
(* kept as the string the file writes; SplitPath gives its components.     *)
(* The label 'Русский' is written "Russkij" (strings are ASCII here).      *)
(***************************************************************************)
EXTENDS Integers, Sequences, FiniteSets, TLC

VARIABLES
    conf,      \* the configuration file being executed
    environ,   \* os.environ: a function from the names that are set to their values
    files,     \* the files that exist, each a normalised path from the repository root
    declared,  \* the list literal the file assigns to `extensions`
    pc,        \* the section the interpreter executes next
    ns         \* the module namespace built so far

vars == <<conf, environ, files, declared, pc, ns>>

\* ---------------------------------------------------------------- bounds

\* Longest alternative `extensions` declaration explored by SpecDecl.
MaxDecl == 2

\* ------------------------------------------------------- Python primitives

None == "None"

EN == "docs/conf.py"
RU == "docs/ru/conf.py"
Confs == {EN, RU}

\* The directory Sphinx changes into before executing the file.
confdir(c) == IF c = EN THEN <<"docs">> ELSE <<"docs", "ru">>

\* dict: key lookup, membership, item assignment (insertion order kept).
DictKeys(d) == [i \in 1..Len(d) |-> d[i][1]]

DictHas(d, k) == \E i \in 1..Len(d) : d[i][1] = k

DictGet(d, k) == d[CHOOSE i \in 1..Len(d) : d[i][1] = k][2]

DictSet(d, k, v) ==
    IF DictHas(d, k)
    THEN [i \in 1..Len(d) |-> IF d[i][1] = k THEN <<k, v>> ELSE d[i]]
    ELSE Append(d, <<k, v>>)

\* Binding names in the module namespace: a later assignment replaces an earlier one.
Bind(n, new) == new @@ n

\* os.environ.get(k): the value, or None when k is not set.
environ_get(env, k) == IF k \in DOMAIN env THEN env[k] ELSE None

\* Mutant of Truthy: the test `is not None` (or `'READTHEDOCS' in os.environ`).
Truthy_is_not_None(v) == v # None

\* Truth value of a str-or-None in an `if`: None and '' are false.
Truthy(v) == v # None /\ v # ""

\* The components of the path literals the two files write.
SplitPath(p) ==
    CASE p = "_static" -> <<"_static">>
      [] p = "_templates" -> <<"_templates">>
      [] p = "_static/logo.png" -> <<"_static", "logo.png">>
      [] p = "_static/favicon.ico" -> <<"_static", "favicon.ico">>
      [] p = "../_static" -> <<"..", "_static">>
      [] p = "../_templates" -> <<"..", "_templates">>
      [] p = "../_static/logo.png" -> <<"..", "_static", "logo.png">>
      [] p = "../_static/favicon.ico" -> <<"..", "_static", "favicon.ico">>
      [] p = "../../_static" -> <<"..", "..", "_static">>

\* Path normalisation: a '..' component removes the component before it; a '..'
\* with nothing before it stays (the path leaves the root).
RECURSIVE NormFrom(_, _)
NormFrom(acc, rest) ==
    IF rest = <<>> THEN acc
    ELSE IF rest[1] = ".." /\ acc # <<>> /\ acc[Len(acc)] # ".."
         THEN NormFrom(SubSeq(acc, 1, Len(acc) - 1), Tail(rest))
         ELSE NormFrom(Append(acc, rest[1]), Tail(rest))

Normalize(path) == NormFrom(<<>>, path)

\* Where a relative path of configuration c points, from the repository root.
Resolve(c, p) == Normalize(confdir(c) \o SplitPath(p))

\* os.path.exists(p), evaluated in the directory of configuration c.
path_exists(c, p, fs) == Resolve(c, p) \in fs

\* ------------------------------------------------------------ docs/conf.py

conf_project_information ==
    [project |-> "VibeMQ", copyright |-> "2026, Darkboy", author |-> "Darkboy",
     release |-> "1.0.0", version |-> "1.0.0"]

\* Mutant of conf_extensions: an identifier pasted twice.
conf_extensions_pasted_twice ==
    <<"sphinx.ext.duration", "sphinx.ext.doctest", "sphinx.ext.autodoc",
      "sphinx.ext.autodoc", "sphinx.ext.intersphinx", "sphinx.ext.viewcode",
      "sphinx.ext.githubpages", "sphinx_copybutton">>

conf_extensions ==
    <<"sphinx.ext.duration", "sphinx.ext.doctest", "sphinx.ext.autodoc",
      "sphinx.ext.autosummary", "sphinx.ext.intersphinx", "sphinx.ext.viewcode",
      "sphinx.ext.githubpages", "sphinx_copybutton">>

conf_intersphinx_mapping ==
    << <<"rtd", <<"https://docs.readthedocs.io/en/stable/", None>> >>,
       <<"python", <<"https://docs.python.org/3/", None>> >> >>

conf_templates_path == <<"_templates">>

conf_exclude_patterns ==
    <<"_build", "Thumbs.db", ".DS_Store", "**.ipynb_checkpoints", "locale", "docs">>

conf_language == "en"

conf_html_static_path == <<"_static">>

conf_html_logo(fs) ==
    IF path_exists(EN, "_static/logo.png", fs) THEN "_static/logo.png" ELSE None

conf_html_favicon(fs) ==
    IF path_exists(EN, "_static/favicon.ico", fs) THEN "_static/favicon.ico" ELSE None

conf_html_theme_options ==
    << <<"logo_only", FALSE>>, <<"display_version", TRUE>>,
       <<"prev_next_buttons_location", "bottom">>, <<"style_external_links", TRUE>>,
       <<"navigation_depth", 4>>, <<"collapse_navigation", FALSE>>,
       <<"sticky_navigation", TRUE>>, <<"includehidden", TRUE>>,
       <<"titles_only", FALSE>> >>

\* The context the hosted-build branch assigns; `version` is read from the namespace.
conf_html_context(n) ==
    << <<"READTHEDOCS", TRUE>>, <<"display_lower_left", TRUE>>,
       <<"version", n.version>> >>

\* Sections of the file, each the namespace after it from the namespace before it.
conf_ProjectInformation(n) == Bind(n, conf_project_information)

conf_GeneralConfiguration(n, d) ==
    Bind(n, [extensions |-> d,
             intersphinx_mapping |-> conf_intersphinx_mapping,
             intersphinx_disabled_domains |-> <<"std">>,
             templates_path |-> conf_templates_path,
             exclude_patterns |-> conf_exclude_patterns])

conf_I18n(n) ==
    Bind(n, [locale_dirs |-> <<"locale">>, language |-> conf_language,
             gettext_uuid |-> TRUE, gettext_compact |-> FALSE])

conf_HtmlOutput(n, fs) ==
    Bind(n, [html_theme |-> "sphinx_rtd_theme",
             html_static_path |-> conf_html_static_path,
             html_logo |-> conf_html_logo(fs),
             html_favicon |-> conf_html_favicon(fs),
             html_theme_options |-> conf_html_theme_options])

conf_EpubOutput(n) == Bind(n, [epub_show_urls |-> "footnote"])

conf_ReadTheDocs(n, env) ==
    IF Truthy(environ_get(env, "READTHEDOCS"))
    THEN Bind(n, [html_context |-> conf_html_context(n)])
    ELSE n

\* --------------------------------------------------------- docs/ru/conf.py

ru_project_information ==
    [project |-> "VibeMQ", copyright |-> "2026, Darkboy", author |-> "Darkboy",
     release |-> "1.0.0", version |-> "1.0.0"]

ru_extensions ==
    <<"sphinx.ext.duration", "sphinx.ext.doctest", "sphinx.ext.autodoc",
      "sphinx.ext.autosummary", "sphinx.ext.intersphinx", "sphinx.ext.viewcode",
      "sphinx.ext.githubpages", "sphinx_copybutton">>

ru_intersphinx_mapping ==
    << <<"rtd", <<"https://docs.readthedocs.io/en/stable/", None>> >>,
       <<"python", <<"https://docs.python.org/3/", None>> >> >>

ru_templates_path == <<"../_templates">>

ru_exclude_patterns == <<"_build", "Thumbs.db", ".DS_Store", "**.ipynb_checkpoints">>

\* Mutant of ru_html_static_path: one '..' too many.
ru_html_static_path_two_up == <<"../../_static">>

ru_html_static_path == <<"../_static">>

ru_html_logo(fs) ==
    IF path_exists(RU, "../_static/logo.png", fs) THEN "../_static/logo.png" ELSE None

\* Mutant of ru_html_favicon: the existence test copied from the logo line.
ru_html_favicon_tests_logo(fs) ==
    IF path_exists(RU, "../_static/logo.png", fs)
    THEN "../_static/favicon.ico" ELSE None

ru_html_favicon(fs) ==
    IF path_exists(RU, "../_static/favicon.ico", fs)
    THEN "../_static/favicon.ico" ELSE None

\* Mutant of ru_html_theme_options: navigation_depth drifted from docs/conf.py.
ru_html_theme_options_drifted ==
    << <<"logo_only", FALSE>>, <<"display_version", TRUE>>,
       <<"prev_next_buttons_location", "bottom">>, <<"style_external_links", TRUE>>,
       <<"navigation_depth", 3>>, <<"collapse_navigation", FALSE>>,
       <<"sticky_navigation", TRUE>>, <<"includehidden", TRUE>>,
       <<"titles_only", FALSE>> >>

ru_html_theme_options ==
    << <<"logo_only", FALSE>>, <<"display_version", TRUE>>,
       <<"prev_next_buttons_location", "bottom">>, <<"style_external_links", TRUE>>,
       <<"navigation_depth", 4>>, <<"collapse_navigation", FALSE>>,
       <<"sticky_navigation", TRUE>>, <<"includehidden", TRUE>>,
       <<"titles_only", FALSE>> >>

\* Mutant of ru_language: the value left as copied from docs/conf.py.
ru_language_copied == "en"

ru_language == "ru"

\* Mutant of ru_available_languages: the 'en' entry forgotten.
ru_available_languages_without_en == << <<"ru", "Russkij">> >>

ru_available_languages == << <<"ru", "Russkij">>, <<"en", "English">> >>

\* Mutant of ru_html_context: current_language left as 'en'.
ru_html_context_current_en ==
    << <<"display_language_selector", TRUE>>, <<"language_code", "ru">>,
       <<"available_languages", ru_available_languages>>,
       <<"current_language", "en">> >>

ru_html_context ==
    << <<"display_language_selector", TRUE>>, <<"language_code", "ru">>,
       <<"available_languages", ru_available_languages>>,
       <<"current_language", "ru">> >>

ru_ProjectInformation(n) == Bind(n, ru_project_information)

ru_GeneralConfiguration(n, d) ==
    Bind(n, [extensions |-> d,
             intersphinx_mapping |-> ru_intersphinx_mapping,
             intersphinx_disabled_domains |-> <<"std">>,
             templates_path |-> ru_templates_path,
             exclude_patterns |-> ru_exclude_patterns])

ru_HtmlOutput(n, fs) ==
    Bind(n, [html_theme |-> "sphinx_rtd_theme",
             html_static_path |-> ru_html_static_path,
             html_logo |-> ru_html_logo(fs),
             html_favicon |-> ru_html_favicon(fs),
             html_theme_options |-> ru_html_theme_options,
             html_css_files |-> <<"language-selector.css">>,
             html_js_files |-> <<"language-selector.js">>])

ru_EpubOutput(n) == Bind(n, [epub_show_urls |-> "footnote"])

ru_LanguageSettings(n) == Bind(n, [language |-> ru_language])

ru_AvailableLanguages(n) == Bind(n, [html_context |-> ru_html_context])

ru_VersionSettings(n) ==
    Bind(n, [html_context |-> DictSet(n.html_context, "version", n.version)])

ru_DisplayLowerLeft(n) ==
    Bind(n, [html_context |-> DictSet(n.html_context, "display_lower_left", TRUE)])

\* Mutant of ru_ReadTheDocs: the branch of docs/conf.py, which assigns a new context.
ru_ReadTheDocs_assigns(n, env) ==
    IF Truthy(environ_get(env, "READTHEDOCS"))
    THEN Bind(n, [html_context |-> conf_html_context(n)])
    ELSE n

ru_ReadTheDocs(n, env) ==
    IF Truthy(environ_get(env, "READTHEDOCS"))
    THEN Bind(n, [html_context |-> DictSet(n.html_context, "READTHEDOCS", TRUE)])
    ELSE n

\* ------------------------------------------------------------ whole files

\* The namespace after `import os` and `import sys`, before the first assignment.
Imports == [os |-> "<module 'os'>", sys |-> "<module 'sys'>"]

\* The namespace a complete execution of each file leaves.
ru_BeforeReadTheDocs(fs, d) ==
    ru_DisplayLowerLeft(
        ru_VersionSettings(
            ru_AvailableLanguages(
                ru_LanguageSettings(
                    ru_EpubOutput(
                        ru_HtmlOutput(
                            ru_GeneralConfiguration(ru_ProjectInformation(Imports), d),
                            fs))))))

conf_BeforeReadTheDocs(fs, d) ==
    conf_EpubOutput(
        conf_HtmlOutput(
            conf_I18n(conf_GeneralConfiguration(conf_ProjectInformation(Imports), d)),
            fs))

conf_Run(env, fs, d) == conf_ReadTheDocs(conf_BeforeReadTheDocs(fs, d), env)

ru_Run(env, fs, d) == ru_ReadTheDocs(ru_BeforeReadTheDocs(fs, d), env)

Run(c, env, fs, d) == IF c = EN THEN conf_Run(env, fs, d) ELSE ru_Run(env, fs, d)

BeforeReadTheDocs(c, fs, d) ==
    IF c = EN THEN conf_BeforeReadTheDocs(fs, d) ELSE ru_BeforeReadTheDocs(fs, d)

\* The list literal each file assigns to `extensions`.
Declaration(c) == IF c = EN THEN conf_extensions ELSE ru_extensions

\* ----------------------------------------------------------------- inputs

EnvNames == {"READTHEDOCS", "LANG"}
EnvValues == {"", "True", "1"}
Environs == UNION {[S -> EnvValues] : S \in SUBSET EnvNames}

AllFiles ==
    { <<"docs", "_static", "logo.png">>, <<"docs", "_static", "favicon.ico">>,
      <<"docs", "ru", "_static", "logo.png">>,
      <<"docs", "ru", "_static", "favicon.ico">> }

\* ------------------------------------------------------------ state machine

Init ==
    /\ conf \in Confs
    /\ environ \in Environs
    /\ files \in SUBSET AllFiles
    /\ declared = Declaration(conf)
    /\ pc = "ProjectInformation"
    /\ ns = Imports

Section(c, here, next, n) ==
    /\ conf = c
    /\ pc = here
    /\ pc' = next
    /\ ns' = n
    /\ UNCHANGED <<conf, environ, files, declared>>

conf_DoProjectInformation ==
    Section(EN, "ProjectInformation", "GeneralConfiguration",
            conf_ProjectInformation(ns))

conf_DoGeneralConfiguration ==
    Section(EN, "GeneralConfiguration", "I18n",
            conf_GeneralConfiguration(ns, declared))

conf_DoI18n == Section(EN, "I18n", "HtmlOutput", conf_I18n(ns))

conf_DoHtmlOutput == Section(EN, "HtmlOutput", "EpubOutput", conf_HtmlOutput(ns, files))

conf_DoEpubOutput == Section(EN, "EpubOutput", "ReadTheDocs", conf_EpubOutput(ns))

conf_DoReadTheDocs == Section(EN, "ReadTheDocs", "done", conf_ReadTheDocs(ns, environ))

ru_DoProjectInformation ==
    Section(RU, "ProjectInformation", "GeneralConfiguration",
            ru_ProjectInformation(ns))

ru_DoGeneralConfiguration ==
    Section(RU, "GeneralConfiguration", "HtmlOutput",
            ru_GeneralConfiguration(ns, declared))

ru_DoHtmlOutput == Section(RU, "HtmlOutput", "EpubOutput", ru_HtmlOutput(ns, files))

ru_DoEpubOutput == Section(RU, "EpubOutput", "LanguageSettings", ru_EpubOutput(ns))

ru_DoLanguageSettings ==
    Section(RU, "LanguageSettings", "AvailableLanguages", ru_LanguageSettings(ns))

ru_DoAvailableLanguages ==
    Section(RU, "AvailableLanguages", "VersionSettings", ru_AvailableLanguages(ns))

ru_DoVersionSettings ==
    Section(RU, "VersionSettings", "DisplayLowerLeft", ru_VersionSettings(ns))

ru_DoDisplayLowerLeft ==
    Section(RU, "DisplayLowerLeft", "ReadTheDocs", ru_DisplayLowerLeft(ns))

ru_DoReadTheDocs == Section(RU, "ReadTheDocs", "done", ru_ReadTheDocs(ns, environ))

Next ==
    \/ conf_DoProjectInformation
    \/ conf_DoGeneralConfiguration
    \/ conf_DoI18n
    \/ conf_DoHtmlOutput
    \/ conf_DoEpubOutput
    \/ conf_DoReadTheDocs
    \/ ru_DoProjectInformation
    \/ ru_DoGeneralConfiguration
    \/ ru_DoHtmlOutput
    \/ ru_DoEpubOutput
    \/ ru_DoLanguageSettings
    \/ ru_DoAvailableLanguages
    \/ ru_DoVersionSettings
    \/ ru_DoDisplayLowerLeft
    \/ ru_DoReadTheDocs

Spec == Init /\ [][Next]_vars

\* The resolver as a function of its declaration (the `extensions` list literal is
\* an input): the shipped declaration and every list of at most MaxDecl identifiers.
ExtAlphabet == {"sphinx.ext.autodoc", "sphinx_copybutton"}

Declarations(c) ==
    {Declaration(c)} \cup UNION {[1..k -> ExtAlphabet] : k \in 0..MaxDecl}

InitDecl ==
    /\ conf \in Confs
    /\ environ \in Environs
    /\ files \in SUBSET AllFiles
    /\ declared \in Declarations(conf)
    /\ pc = "ProjectInformation"
    /\ ns = Imports

SpecDecl == InitDecl /\ [][Next]_vars

TypeOK ==
    /\ conf \in Confs
    /\ files \subseteq AllFiles
    /\ pc \in {"ProjectInformation", "GeneralConfiguration", "I18n", "HtmlOutput",
               "EpubOutput", "LanguageSettings", "AvailableLanguages",
               "VersionSettings", "DisplayLowerLeft", "ReadTheDocs", "done"}
    /\ (pc = "done" => ns = Run(conf, environ, files, declared))

\* ------------------------------------------------------- vocabulary of the claims

\* The locale registry and the configuration file that resolves each locale.
Registry == {"ru", "en"}
ConfFor(L) == IF L = "ru" THEN RU ELSE EN
OtherConf(c) == IF c = EN THEN RU ELSE EN

\* The hosted-build signal: READTHEDOCS set to a non-empty value.
SignalAbsent(env) == "READTHEDOCS" \notin DOMAIN env \/ env["READTHEDOCS"] = ""
SignalPresent(env) == ~SignalAbsent(env)

OverrideKeys == {"READTHEDOCS", "version", "display_lower_left"}
SelectorKeys ==
    {"display_language_selector", "language_code", "available_languages",
     "current_language"}

Defined(n, k) == k \in DOMAIN n
HasContext(n) == Defined(n, "html_context")
ContextHas(n, k) == HasContext(n) /\ DictHas(n.html_context, k)
Range(q) == {q[i] : i \in 1..Len(q)}
NoDuplicates(q) == \A i, j \in 1..Len(q) : q[i] = q[j] => i = j
IsPrefix(a, b) == Len(a) <= Len(b) /\ SubSeq(b, 1, Len(a)) = a
Done == pc = "done"

\* Two namespaces agree on name k: both lack it, or both bind it to the same value.
AgreeOn(n, m, k) ==
    /\ Defined(n, k) <=> Defined(m, k)
    /\ Defined(n, k) => n[k] = m[k]

\* Two namespaces agree on context key k: both lack it, or both hold the same value.
AgreeOnContext(n, m, k) ==
    /\ ContextHas(n, k) <=> ContextHas(m, k)
    /\ ContextHas(n, k) => DictGet(n.html_context, k) = DictGet(m.html_context, k)

\* The asset paths of a namespace: static and template directories, logo, favicon.
AssetPaths(n) ==
    (Range(n.html_static_path) \cup Range(n.templates_path)
        \cup {n.html_logo, n.html_favicon}) \ {None}

\* ---------------------------------------------------------------------- C2
\* C2: for every locale L of the registry, the configuration that resolves L binds
\* `language` to L, L is not empty, and every other locale marker of the record
\* (language_code, current_language) is L too, with or without the signal.
C2_LocaleIsRequested ==
    \A L \in Registry :
        (conf = ConfFor(L) /\ Defined(ns, "language")) =>
            /\ ns.language = L
            /\ ns.language # ""
            /\ \A k \in {"language_code", "current_language"} :
                   ContextHas(ns, k) => DictGet(ns.html_context, k) = L

C2_Witness ==
    /\ Done /\ conf = RU /\ SignalPresent(environ)
    /\ ns.language = "ru" /\ ContextHas(ns, "language_code")

\* ---------------------------------------------------------------------- C3
\* C3: whenever the context carries available_languages, at every point of the
\* execution, current_language is one of its keys and equals `language`, which is
\* therefore a key as well.
C3_CurrentLanguageIsAKey ==
    ContextHas(ns, "available_languages") =>
        LET ctx == ns.html_context
            al == DictGet(ctx, "available_languages")
        IN /\ DictHas(ctx, "current_language")
           /\ DictHas(al, DictGet(ctx, "current_language"))
           /\ Defined(ns, "language")
           /\ DictGet(ctx, "current_language") = ns.language
           /\ DictHas(al, ns.language)

C3_Witness ==
    /\ Done /\ conf = RU /\ SignalPresent(environ)
    /\ ContextHas(ns, "available_languages") /\ ContextHas(ns, "READTHEDOCS")
    /\ ContextHas(ns, "version")

\* ---------------------------------------------------------------------- C4
\* C4: with the signal present, compared with the record of the same file, files
\* and declaration resolved without the signal: the context holds READTHEDOCS = True,
\* version = `version` and display_lower_left = True; every name bound without the
\* signal is bound with it; every name other than html_context has the same value;
\* and the context keys that are not overrides are the same with the same values.
C4_OverridesOnlyAddOrReplace ==
    (Done /\ SignalPresent(environ)) =>
        \A e \in Environs :
            SignalAbsent(e) =>
                LET base == Run(conf, e, files, declared)
                IN /\ HasContext(ns)
                   /\ DictHas(ns.html_context, "READTHEDOCS")
                   /\ DictGet(ns.html_context, "READTHEDOCS") = TRUE
                   /\ DictHas(ns.html_context, "version")
                   /\ DictGet(ns.html_context, "version") = ns.version
                   /\ DictHas(ns.html_context, "display_lower_left")
                   /\ DictGet(ns.html_context, "display_lower_left") = TRUE
                   /\ DOMAIN base \subseteq DOMAIN ns
                   /\ DOMAIN ns \subseteq DOMAIN base \cup {"html_context"}
                   /\ \A k \in DOMAIN base \ {"html_context"} : ns[k] = base[k]
                   /\ \A k \in SelectorKeys : AgreeOnContext(ns, base, k)
                   /\ Range(DictKeys(ns.html_context)) \subseteq
                          OverrideKeys \cup SelectorKeys
                   /\ HasContext(base) =>
                          IsPrefix(DictKeys(base.html_context),
                                   DictKeys(ns.html_context))

C4_Witness ==
    /\ Done /\ conf = RU /\ SignalPresent(environ)
    /\ ContextHas(ns, "READTHEDOCS") /\ ContextHas(ns, "available_languages")

\* ---------------------------------------------------------------------- C5
\* C5: with the signal absent (READTHEDOCS unset or empty) the hosted-build branch
\* changes nothing: the record is the namespace as it was before the branch, its
\* context (if any) has no READTHEDOCS key, and docs/conf.py has no context at all.
\* And the record is a function of the file, the signal, the asset files and the
\* declaration: any environment with the same signal, whatever else it sets, gives
\* the same record, extensions in the same order.
C5_NoSignalNoOverride ==
    Done =>
        /\ SignalAbsent(environ) =>
               /\ ns = BeforeReadTheDocs(conf, files, declared)
               /\ ~ContextHas(ns, "READTHEDOCS")
               /\ conf = EN => ~HasContext(ns)
        /\ \A e \in Environs :
               (SignalAbsent(e) <=> SignalAbsent(environ)) =>
                   /\ ns = Run(conf, e, files, declared)
                   /\ ns.extensions = Run(conf, e, files, declared).extensions

C5_Witness ==
    /\ Done /\ conf = RU /\ "READTHEDOCS" \in DOMAIN environ
    /\ environ["READTHEDOCS"] = "" /\ "LANG" \in DOMAIN environ
    /\ ContextHas(ns, "version") /\ ~ContextHas(ns, "READTHEDOCS")

\* ---------------------------------------------------------------------- C6
\* C6 as stated: every asset path of every resolved configuration resolves inside
\* the directory of its own conf.py and has no '..' component.
C6_AssetsInsideLocaleRoot ==
    Done =>
        \A p \in AssetPaths(ns) :
            /\ ".." \notin Range(SplitPath(p))
            /\ IsPrefix(confdir(conf), Resolve(conf, p))

\* C6 as amended: every asset path resolves inside docs/, the directory of the
\* default configuration.  The paths of docs/conf.py have no '..' and stay in its
\* own directory; every path of docs/ru/conf.py starts with exactly one '..' and
\* resolves outside docs/ru, to the directory docs/conf.py uses.
C6_AssetsInsideDocsRoot ==
    Done =>
        \A p \in AssetPaths(ns) :
            /\ IsPrefix(confdir(EN), Resolve(conf, p))
            /\ ".." \notin Range(Resolve(conf, p))
            /\ conf = EN => ".." \notin Range(SplitPath(p))
            /\ conf = RU =>
                   /\ SplitPath(p)[1] = ".."
                   /\ ".." \notin Range(Tail(SplitPath(p)))
                   /\ ~IsPrefix(confdir(RU), Resolve(conf, p))
                   /\ Resolve(conf, p) = confdir(EN) \o Tail(SplitPath(p))

C6_Witness ==
    /\ Done /\ conf = RU /\ ns.html_logo = "../_static/logo.png"
    /\ Resolve(RU, ns.html_logo) = <<"docs", "_static", "logo.png">>

\* ---------------------------------------------------------------------- C7
\* C7: once docs/ru/conf.py has built its context, available_languages has exactly
\* one entry per locale of the registry, 'ru' then 'en' in that order, labelled
\* Russkij and English, and current_language is present; docs/conf.py never carries
\* available_languages or current_language, with or without the signal.
C7_SelectorHostCarriesRegistry ==
    /\ (conf = RU /\ pc \in {"VersionSettings", "DisplayLowerLeft", "ReadTheDocs",
                              "done"}) =>
           /\ ContextHas(ns, "available_languages")
           /\ ContextHas(ns, "current_language")
           /\ LET al == DictGet(ns.html_context, "available_languages")
              IN /\ Range(DictKeys(al)) = Registry
                 /\ NoDuplicates(DictKeys(al))
                 /\ DictKeys(al) = <<"ru", "en">>
                 /\ DictGet(al, "ru") = "Russkij"
                 /\ DictGet(al, "en") = "English"
                 /\ \A L \in Registry : ConfFor(L) \in Confs
    /\ conf = EN =>
           /\ ~ContextHas(ns, "available_languages")
           /\ ~ContextHas(ns, "current_language")

C7_Witness ==
    /\ Done /\ conf = RU /\ SignalPresent(environ)
    /\ Len(DictGet(ns.html_context, "available_languages")) = 2

\* ---------------------------------------------------------------------- C8
\* C8: execution never stops before the end of the file, whatever files exist.  In
\* the record, html_logo is the logo path when docs/_static/logo.png exists and None
\* when it does not, and likewise html_favicon for docs/_static/favicon.ico; adding
\* or removing one of the two files changes the field of that asset and no other.
LogoFile == <<"docs", "_static", "logo.png">>
FaviconFile == <<"docs", "_static", "favicon.ico">>
Toggle(fs, f) == IF f \in fs THEN fs \ {f} ELSE fs \cup {f}

C8_MissingAssetIsNone ==
    /\ ~Done => ENABLED Next
    /\ Done =>
           /\ ns.html_logo =
                  IF LogoFile \in files
                  THEN (IF conf = EN THEN "_static/logo.png" ELSE "../_static/logo.png")
                  ELSE None
           /\ ns.html_favicon =
                  IF FaviconFile \in files
                  THEN (IF conf = EN THEN "_static/favicon.ico"
                                     ELSE "../_static/favicon.ico")
                  ELSE None
           /\ \A f \in AllFiles :
                  LET other == Run(conf, environ, Toggle(files, f), declared)
                      field == IF f = LogoFile THEN {"html_logo"}
                               ELSE IF f = FaviconFile THEN {"html_favicon"}
                               ELSE {}
                  IN /\ DOMAIN other = DOMAIN ns
                     /\ \A k \in DOMAIN ns \ field : other[k] = ns[k]
                     /\ \A k \in field : other[k] # ns[k]

C8_Witness ==
    /\ Done /\ conf = RU /\ FaviconFile \notin files /\ LogoFile \in files
    /\ <<"docs", "ru", "_static", "favicon.ico">> \in files
    /\ ns.html_favicon = None /\ ns.html_logo = "../_static/logo.png"

LocaleNames == {"language"}
AssetNames == {"html_static_path", "templates_path", "html_logo", "html_favicon"}
SelectorNames == {"html_css_files", "html_js_files"}
SharedNames ==
    {"project", "copyright", "author", "release", "version", "extensions",
     "html_theme", "html_theme_options"}

\* C10 as stated: for the same signal, files and declaration the two records agree
\* on the project metadata, the extensions, the theme and its options, and on the
\* version, display_lower_left and READTHEDOCS keys of the context; every name
\* outside locale, asset paths and selector fields is bound alike in both.
C10_LocalesDifferOnlyInLocaleFields ==
    Done =>
        LET other == Run(OtherConf(conf), environ, files, Declaration(OtherConf(conf)))
        IN /\ \A k \in SharedNames : AgreeOn(ns, other, k)
           /\ \A k \in OverrideKeys : AgreeOnContext(ns, other, k)
           /\ \A k \in (DOMAIN ns \cup DOMAIN other)
                         \ (LocaleNames \cup AssetNames \cup SelectorNames
                              \cup {"html_context"}) :
                  AgreeOn(ns, other, k)

\* C10 as amended: the two records agree on the project metadata, the extensions,
\* the theme and its options (and on the intersphinx and epub settings).  With the
\* signal present they agree on version, display_lower_left and READTHEDOCS in the
\* context; with it absent docs/conf.py has no context while docs/ru/conf.py still
\* exposes version and display_lower_left = True, and no READTHEDOCS.  Besides
\* locale, asset paths and selector fields they differ in exclude_patterns and in
\* locale_dirs, gettext_uuid and gettext_compact, which only docs/conf.py binds.
C10_LocalesAgreeOnSharedFields ==
    Done =>
        LET other == Run(OtherConf(conf), environ, files, Declaration(OtherConf(conf)))
            en == IF conf = EN THEN ns ELSE other
            ru == IF conf = RU THEN ns ELSE other
        IN /\ \A k \in SharedNames : Defined(en, k) /\ AgreeOn(en, ru, k)
           /\ \A k \in {"intersphinx_mapping", "intersphinx_disabled_domains",
                        "epub_show_urls"} : Defined(en, k) /\ AgreeOn(en, ru, k)
           /\ SignalPresent(environ) =>
                  \A k \in OverrideKeys : ContextHas(en, k) /\ AgreeOnContext(en, ru, k)
           /\ SignalAbsent(environ) =>
                  /\ ~HasContext(en)
                  /\ ContextHas(ru, "version")
                  /\ DictGet(ru.html_context, "version") = ru.version
                  /\ ContextHas(ru, "display_lower_left")
                  /\ DictGet(ru.html_context, "display_lower_left") = TRUE
                  /\ ~ContextHas(ru, "READTHEDOCS")
           /\ {k \in DOMAIN en \cup DOMAIN ru : ~AgreeOn(en, ru, k)} \subseteq
                  LocaleNames \cup AssetNames \cup SelectorNames
                      \cup {"html_context", "exclude_patterns", "locale_dirs",
                            "gettext_uuid", "gettext_compact"}
           /\ \A k \in {"locale_dirs", "gettext_uuid", "gettext_compact"} :
                  Defined(en, k) /\ ~Defined(ru, k)
           /\ en.exclude_patterns # ru.exclude_patterns

C10_Witness ==
    /\ Done /\ conf = RU /\ SignalAbsent(environ) /\ declared = Declaration(RU)
    /\ ContextHas(ns, "version") /\ ~Defined(ns, "locale_dirs")

====
